---- MODULE Spec2Model ----
(***************************************************************************)
(* Model of server::MultiServer (src/src/server/multiserver.cpp): the      *)
(* listener / lifecycle controller of the Drawpile dedicated server.       *)
(*                                                                         *)
(* Everything runs on one Qt event loop, so every public call and every   *)
(* signal handler is one atomic action.  A handler is written as an       *)
(* operator over a record holding the object's fields, the registry's     *)
(* counters and the log of the external calls the handler makes; nested   *)
(* calls (stop -> stopAll -> userDisconnected -> stop) are nested         *)
(* operator applications.                                                  *)
(*                                                                         *)
(* Q_ASSERT is modelled as compiled in: a failing assertion ends the       *)
(* process (fault = "assert").  Calling through a null m_server is         *)
(* undefined behaviour: the process either dies (fault = "nullderef") or   *)
(* the call has no effect and execution goes on.                           *)
(***************************************************************************)
EXTENDS Integers, Sequences, FiniteSets, TLC

\* ---- bounds ----
MaxUsers == 2
MaxSessions == 2
MaxPending == 2
MaxSessionId == 2
MaxLen == 4

\* ---- enum State (multiserver.h), in declaration order ----
NOT_STARTED == "NOT_STARTED"
RUNNING == "RUNNING"
STOPPING == "STOPPING"
STOPPED == "STOPPED"
States == {NOT_STARTED, RUNNING, STOPPING, STOPPED}

\* m_server: no object, an object that listens, an object that does not.
NULLPTR == "nullptr"
LISTENING == "listening"
CLOSED == "closed"

VARIABLES
    m_state,      \* MultiServer::m_state
    m_server,     \* MultiServer::m_server and QTcpServer::isListening()
    m_autoStop,   \* MultiServer::m_autoStop
    m_ssl,        \* both m_sslCertFile and m_sslKeyFile are non-empty
    users,        \* SessionServer::totalUsers()
    sessions,     \* SessionServer::sessionCount()
    pending,      \* connections waiting in the listener
    liveServers,  \* QTcpServer objects allocated and not deleted
    emitted,      \* number of serverStopped() emissions so far
    fault,        \* "none", or why the process died
    fx,           \* the last call or event: its inputs, result and call log
    recordingPath,\* m_config->getConfigString(config::RecordingPath)
    fsDirs,       \* the directories that exist
    fsFiles,      \* the files that exist
    rec           \* the last session->setRecordingFile(file): the session id, the clock, the file

vars == <<m_state, m_server, m_autoStop, m_ssl, users, sessions, pending, liveServers, emitted, fault, fx, recordingPath, fsDirs, fsFiles, rec>>

\* ---- the record a handler works on ----
Cur == [m_state |-> m_state, m_server |-> m_server, m_autoStop |-> m_autoStop,
        m_ssl |-> m_ssl, users |-> users, sessions |-> sessions, pending |-> pending,
        liveServers |-> liveServers, emitted |-> emitted, fault |-> fault,
        recordingPath |-> recordingPath, fsDirs |-> fsDirs, fsFiles |-> fsFiles, rec |-> rec,
        log |-> <<>>, ret |-> "void", syncUsers |-> 0, syncSessions |-> 0, ub |-> "crash"]

\* An external call made by a handler, with the registry's counts at that moment.
Log(s, what) == [s EXCEPT !.log = Append(@, <<what, s.users, s.sessions>>)]

RECURSIVE CountIn(_, _)
CountIn(log, what) ==
    IF log = <<>> THEN 0
    ELSE (IF Head(log)[1] = what THEN 1 ELSE 0) + CountIn(Tail(log), what)

\* ---- strings: a QString is a sequence of one-character strings ----
startsWith(f, p) == Len(f) >= Len(p) /\ SubSeq(f, 1, Len(p)) = p

\* QString::mid(n): the string from position n (counted from 0) on
mid(f, n) == SubSeq(f, n + 1, Len(f))

\* QString::replace(before, after): every occurrence, left to right; the
\* text put in is not searched again.
\* A replace that stops after the first occurrence.
RECURSIVE replace_firstOnly(_, _, _)
replace_firstOnly(f, before, after) ==
    IF Len(f) < Len(before) THEN f
    ELSE IF startsWith(f, before) THEN after \o mid(f, Len(before))
    ELSE <<Head(f)>> \o replace_firstOnly(Tail(f), before, after)

RECURSIVE replace(_, _, _)
replace(f, before, after) ==
    IF Len(f) < Len(before) THEN f
    ELSE IF startsWith(f, before) THEN after \o replace(mid(f, Len(before)), before, after)
    ELSE <<Head(f)>> \o replace(Tail(f), before, after)

Digit(n) == <<"0", "1", "2", "3", "4", "5", "6", "7", "8", "9">>[n + 1]

\* QString::number for a natural number
RECURSIVE Decimal(_)
Decimal(n) == IF n < 10 THEN <<Digit(n)>> ELSE Decimal(n \div 10) \o <<Digit(n % 10)>>

Two(n) == <<Digit((n \div 10) % 10), Digit(n % 10)>>

\* QDateTime::toString("yyyy-MM-dd") and ("HH.mm.ss")
DateString(now) == Two(now.year \div 100) \o Two(now.year) \o <<"-">> \o Two(now.month) \o <<"-">> \o Two(now.day)
TimeString(now) == Two(now.hour) \o <<".">> \o Two(now.minute) \o <<".">> \o Two(now.second)

\* sessionIdString(session->id())
sessionIdString(id) == Decimal(id)

\* ---- the process environment and the file system ----
HOME == <<"/", "h">>
CurrentDir == <<"/", "w">>
DefaultPattern == <<"%", "d", " ", "%", "t", " ", "s", "e", "s", "s", "i", "o", "n", " ", "%", "i", ".", "d", "p", "r", "e", "c">>

\* QDir::cleanPath, for paths without "." and ".." parts: no doubled and no trailing slash
RECURSIVE collapseSlashes(_)
collapseSlashes(f) ==
    IF Len(f) <= 1 THEN f
    ELSE IF f[1] = "/" /\ f[2] = "/" THEN collapseSlashes(Tail(f))
    ELSE <<Head(f)>> \o collapseSlashes(Tail(f))

cleanPath(f) ==
    LET c == collapseSlashes(f) IN
    IF Len(c) > 1 /\ c[Len(c)] = "/" THEN SubSeq(c, 1, Len(c) - 1) ELSE c

\* QFileInfo::absoluteFilePath
absoluteFilePath(f) ==
    IF startsWith(f, <<"/">>) THEN cleanPath(f) ELSE cleanPath(CurrentDir \o <<"/">> \o f)

\* QFileInfo::isDir
isDir(f, dirs) == absoluteFilePath(f) \in dirs

\* QDir(dir).filePath(name)
filePath(dir, name) ==
    IF dir[Len(dir)] = "/" THEN dir \o name ELSE dir \o <<"/">> \o name

\* ---- MultiServer::assignRecording, the handler of sessionCreated ----
assignRecording(s, id, now) ==
    LET filename == s.recordingPath IN
    IF filename = <<>>
    THEN s
    ELSE LET home == IF startsWith(filename, <<"~", "/">>) THEN HOME \o mid(filename, 1) ELSE filename
             pat == IF isDir(home, s.fsDirs) THEN absoluteFilePath(filePath(home, DefaultPattern)) ELSE home
             d == replace(pat, <<"%", "d">>, DateString(now))
             dt == replace(d, <<"%", "t">>, TimeString(now))
             dti == replace(dt, <<"%", "i">>, sessionIdString(id))
         IN [s EXCEPT !.rec = [id |-> id, now |-> now, assigned |-> TRUE, file |-> absoluteFilePath(dti)]]

\* ---- MultiServer::printStatusUpdate ----
printStatusUpdate(s) == Log(s, "notifyStatus")

RECURSIVE stop(_)
RECURSIVE tryAutoStop(_)
RECURSIVE onUserDisconnected(_)
RECURSIVE stopAll(_)

\* ---- SessionServer::stopAll: every user is told to leave.  Some of them
\* (syncUsers) are gone before stopAll returns, and their userDisconnected
\* signal runs inside it; so for the sessions that end (syncSessions).
stopAll(s) ==
    IF s.syncSessions > 0 /\ s.sessions > 0
    THEN stopAll(tryAutoStop([s EXCEPT !.sessions = @ - 1, !.syncSessions = @ - 1]))
    ELSE IF s.syncUsers > 0 /\ s.users > 0
    THEN stopAll(onUserDisconnected([s EXCEPT !.users = @ - 1, !.syncUsers = @ - 1]))
    ELSE s

\* ---- MultiServer::stop ----
\* stopTail without the test of m_state: stop() emits whenever nobody is connected.
stopTail_noStateCheck(s) ==
    IF s.users = 0
    THEN Log([s EXCEPT !.m_state = STOPPED, !.emitted = @ + 1], "serverStopped")
    ELSE s

\* stopTail without the test of totalUsers(): STOPPING always ends in STOPPED.
stopTail_noUserCheck(s) ==
    IF s.m_state = STOPPING
    THEN Log([s EXCEPT !.m_state = STOPPED, !.emitted = @ + 1], "serverStopped")
    ELSE s

stopTail(s) ==
    IF s.m_state = STOPPING /\ s.users = 0
    THEN Log([s EXCEPT !.m_state = STOPPED, !.emitted = @ + 1], "serverStopped")
    ELSE s

\* stop() whose first block is entered in NOT_STARTED as well as in RUNNING.
stop_noGuard(s) ==
    IF s.m_state \in {NOT_STARTED, RUNNING}
    THEN LET s1 == [s EXCEPT !.m_state = STOPPING] IN
         IF s1.m_server = NULLPTR
         THEN IF s1.ub = "crash"
              THEN [s1 EXCEPT !.fault = "nullderef"]
              ELSE stopTail(stopAll(Log(s1, "stopAll")))
         ELSE stopTail(stopAll(Log(Log([s1 EXCEPT !.m_server = CLOSED, !.pending = 0], "close"), "stopAll")))
    ELSE stopTail(s)

\* stop() that does not close the listener.
stop_noClose(s) ==
    IF s.m_state = RUNNING
    THEN stopTail(stopAll(Log([s EXCEPT !.m_state = STOPPING], "stopAll")))
    ELSE stopTail(s)

\* stop() with "else if": the zero-user test is skipped in the call that leaves RUNNING.
stop_elseIf(s) ==
    IF s.m_state = RUNNING
    THEN LET s1 == [s EXCEPT !.m_state = STOPPING] IN
         IF s1.m_server = NULLPTR
         THEN IF s1.ub = "crash"
              THEN [s1 EXCEPT !.fault = "nullderef"]
              ELSE stopAll(Log(s1, "stopAll"))
         ELSE stopAll(Log(Log([s1 EXCEPT !.m_server = CLOSED, !.pending = 0], "close"), "stopAll"))
    ELSE stopTail(s)

\* stop() that kicks everybody out again when re-run during the drain.
stop_kicksAgain(s) ==
    IF s.m_state \in {RUNNING, STOPPING}
    THEN LET s1 == [s EXCEPT !.m_state = STOPPING] IN
         IF s1.m_server = NULLPTR
         THEN IF s1.ub = "crash"
              THEN [s1 EXCEPT !.fault = "nullderef"]
              ELSE stopTail(stopAll(Log(s1, "stopAll")))
         ELSE stopTail(stopAll(Log(Log([s1 EXCEPT !.m_server = CLOSED, !.pending = 0], "close"), "stopAll")))
    ELSE stopTail(s)

stop(s) ==
    IF s.m_state = RUNNING
    THEN LET s1 == [s EXCEPT !.m_state = STOPPING] IN
         IF s1.m_server = NULLPTR
         THEN IF s1.ub = "crash"
              THEN [s1 EXCEPT !.fault = "nullderef"]
              ELSE stopTail(stopAll(Log(s1, "stopAll")))
         ELSE stopTail(stopAll(Log(Log([s1 EXCEPT !.m_server = CLOSED, !.pending = 0], "close"), "stopAll")))
    ELSE stopTail(s)

\* ---- MultiServer::tryAutoStop ----
\* tryAutoStop that looks at the user count only.
tryAutoStop_ignoresSessions(s) ==
    IF s.m_state = RUNNING /\ s.m_autoStop /\ s.users = 0
    THEN stop(Log(s, "autostop"))
    ELSE s

tryAutoStop(s) ==
    IF s.m_state = RUNNING /\ s.m_autoStop /\ s.sessions = 0 /\ s.users = 0
    THEN stop(Log(s, "autostop"))
    ELSE s

\* ---- the userDisconnected lambda of the constructor ----
\* The userDisconnected handler without its else branch.
onUserDisconnected_noAutoStop(s) ==
    LET s1 == printStatusUpdate(s) IN
    IF s1.m_state = STOPPING THEN stop(s1) ELSE s1

\* The userDisconnected handler that never re-runs stop() during the drain.
onUserDisconnected_noStop(s) ==
    tryAutoStop(printStatusUpdate(s))

onUserDisconnected(s) ==
    LET s1 == printStatusUpdate(s) IN
    IF s1.m_state = STOPPING THEN stop(s1) ELSE tryAutoStop(s1)

\* ---- MultiServer::createServer: s.ret tells whether it succeeded ----
createServer(s, validCert) ==
    IF s.m_ssl
    THEN LET s1 == Log([s EXCEPT !.liveServers = @ + 1], "new SslServer") IN
         IF ~validCert
         THEN [s1 EXCEPT !.ret = "false"]
         ELSE [s1 EXCEPT !.m_server = CLOSED, !.ret = "true"]
    ELSE [Log([s EXCEPT !.liveServers = @ + 1], "new QTcpServer") EXCEPT !.m_server = CLOSED, !.ret = "true"]

\* start without the entry assertion.
start_noAssert(s, validCert, listenOk) ==
    LET s1 == createServer([s EXCEPT !.m_state = RUNNING], validCert) IN
    IF s1.ret = "false"
    THEN s1
    ELSE IF ~listenOk
    THEN [Log(s1, "delete") EXCEPT !.m_server = NULLPTR, !.liveServers = @ - 1,
                                   !.m_state = NOT_STARTED, !.ret = "false"]
    ELSE [s1 EXCEPT !.m_server = LISTENING, !.ret = "true"]

\* ---- MultiServer::start; listenOk is the result of QTcpServer::listen ----
start(s, validCert, listenOk) ==
    IF s.m_state # NOT_STARTED
    THEN [s EXCEPT !.fault = "assert"]
    ELSE LET s1 == createServer([s EXCEPT !.m_state = RUNNING], validCert) IN
         IF s1.ret = "false"
         THEN s1
         ELSE IF ~listenOk
         THEN [Log(s1, "delete") EXCEPT !.m_server = NULLPTR, !.liveServers = @ - 1,
                                        !.m_state = NOT_STARTED, !.ret = "false"]
         ELSE [s1 EXCEPT !.m_server = LISTENING, !.ret = "true"]

\* startFd that leaves m_state alone when the descriptor is refused.
startFd_noReset(s, validCert, fdOk) ==
    IF s.m_state # NOT_STARTED
    THEN [s EXCEPT !.fault = "assert"]
    ELSE LET s1 == createServer([s EXCEPT !.m_state = RUNNING], validCert) IN
         IF s1.ret = "false"
         THEN s1
         ELSE IF ~fdOk
         THEN [Log(s1, "delete") EXCEPT !.m_server = NULLPTR, !.liveServers = @ - 1, !.ret = "false"]
         ELSE [s1 EXCEPT !.m_server = LISTENING, !.ret = "true"]

\* ---- MultiServer::startFd; fdOk is the result of setSocketDescriptor ----
startFd(s, validCert, fdOk) ==
    IF s.m_state # NOT_STARTED
    THEN [s EXCEPT !.fault = "assert"]
    ELSE LET s1 == createServer([s EXCEPT !.m_state = RUNNING], validCert) IN
         IF s1.ret = "false"
         THEN s1
         ELSE IF ~fdOk
         THEN [Log(s1, "delete") EXCEPT !.m_server = NULLPTR, !.liveServers = @ - 1,
                                        !.m_state = NOT_STARTED, !.ret = "false"]
         ELSE [s1 EXCEPT !.m_server = LISTENING, !.ret = "true"]

\* setAutoStop that evaluates the auto-stop condition at once.
setAutoStop_evaluates(s, autostop) == tryAutoStop([s EXCEPT !.m_autoStop = autostop])

\* ---- MultiServer::setAutoStop ----
setAutoStop(s, autostop) == [s EXCEPT !.m_autoStop = autostop]

\* newClient without the ban check.
newClient_noBanCheck(s, banned) ==
    printStatusUpdate(Log([s EXCEPT !.pending = @ - 1, !.users = @ + 1], "addClient"))

\* ---- MultiServer::newClient; banned is m_config->isAddressBanned(peer) ----
newClient(s, banned) ==
    LET s1 == Log([s EXCEPT !.pending = @ - 1], "nextPendingConnection") IN
    IF banned
    THEN Log(s1, "disconnectKick BANNED")
    ELSE printStatusUpdate(Log([s1 EXCEPT !.users = @ + 1], "addClient"))

\* ---- state machine ----
Fx(op, s, arg, env) ==
    [op |-> op, arg |-> arg, env |-> env, ret |-> s.ret, log |-> s.log,
     from |-> m_state, serverBefore |-> m_server, autoStopBefore |-> m_autoStop,
     usersBefore |-> users, sessionsBefore |-> sessions, pendingBefore |-> pending,
     emittedBefore |-> emitted]

Commit(s, op, arg, env) ==
    /\ m_state' = s.m_state
    /\ m_server' = s.m_server
    /\ m_autoStop' = s.m_autoStop
    /\ m_ssl' = s.m_ssl
    /\ users' = s.users
    /\ sessions' = s.sessions
    /\ pending' = s.pending
    /\ liveServers' = s.liveServers
    /\ emitted' = s.emitted
    /\ fault' = s.fault
    /\ fx' = Fx(op, s, arg, env)
    /\ recordingPath' = s.recordingPath
    /\ fsDirs' = s.fsDirs
    /\ fsFiles' = s.fsFiles
    /\ rec' = s.rec

\* ---- bounded inputs of the recording path ----
Clocks == {[year |-> 2024, month |-> 3, day |-> 5, hour |-> 14, minute |-> 7, second |-> 2],
           [year |-> 1999, month |-> 12, day |-> 31, hour |-> 23, minute |-> 59, second |-> 59]}
SessionIds == 1..MaxSessionId
NoRec == [id |-> 0, now |-> CHOOSE c \in Clocks : c.year = 2024, assigned |-> FALSE, file |-> <<>>]

\* The directories of the file system: the root, the home and the working
\* directory, and a directory "d" in each.
SomeDirs == {<<"/">>, HOME, CurrentDir, <<"/", "d">>, HOME \o <<"/", "d">>, CurrentDir \o <<"/", "d">>}
PlainDirs == {<<"/">>, HOME, CurrentDir}

\* "~/%i", "rec" and the empty pattern
HomePattern == <<"~", "/", "%", "i">>
FixedPattern == <<"r", "e", "c">>

\* The MultiServer object right after construction.
InitServer ==
    /\ m_state = NOT_STARTED
    /\ m_server = NULLPTR
    /\ m_autoStop = FALSE
    /\ m_ssl \in BOOLEAN
    /\ users = 0
    /\ sessions = 0
    /\ pending = 0
    /\ liveServers = 0
    /\ emitted = 0
    /\ fault = "none"
    /\ fx = [op |-> "MultiServer", arg |-> FALSE, env |-> FALSE, ret |-> "void", log |-> <<>>,
             from |-> NOT_STARTED, serverBefore |-> NULLPTR, autoStopBefore |-> FALSE,
             usersBefore |-> 0, sessionsBefore |-> 0, pendingBefore |-> 0, emittedBefore |-> 0]
    /\ rec = NoRec

Init ==
    /\ InitServer
    /\ recordingPath \in {<<>>, HomePattern}
    /\ fsDirs = PlainDirs
    /\ fsFiles = {}

\* The process is alive: no assertion has failed, no null pointer was used.
Alive == fault = "none"

CallStart ==
    /\ Alive
    /\ \E validCert \in BOOLEAN, listenOk \in BOOLEAN :
          Commit(start(Cur, validCert, listenOk), "start", validCert, listenOk)

CallStartFd ==
    /\ Alive
    /\ \E validCert \in BOOLEAN, fdOk \in BOOLEAN :
          Commit(startFd(Cur, validCert, fdOk), "startFd", validCert, fdOk)

CallSetAutoStop ==
    /\ Alive
    /\ \E autostop \in BOOLEAN :
          Commit(setAutoStop(Cur, autostop), "setAutoStop", autostop, FALSE)

\* stop() called by the owner.  The registry decides how many users and
\* sessions are gone before stopAll returns.
CallStop ==
    /\ Alive
    /\ \E k \in 0..users, j \in 0..sessions, ub \in {"crash", "continue"} :
          Commit(stop([Cur EXCEPT !.syncUsers = k, !.syncSessions = j, !.ub = ub]),
                 "stop", FALSE, ub = "crash")

\* A peer connects to the listening socket.
ConnArrives ==
    /\ Alive
    /\ m_server = LISTENING
    /\ pending < MaxPending
    /\ pending' = pending + 1
    /\ fx' = [Fx("connect", Cur, FALSE, FALSE) EXCEPT !.ret = "void"]
    /\ UNCHANGED <<m_state, m_server, m_autoStop, m_ssl, users, sessions, liveServers, emitted, fault, recordingPath, fsDirs, fsFiles, rec>>

\* QTcpServer::newConnection, emitted for a pending connection while listening.
EvNewConnection ==
    /\ Alive
    /\ m_server = LISTENING
    /\ pending > 0
    /\ \E banned \in BOOLEAN :
          /\ banned \/ users < MaxUsers
          /\ Commit(newClient(Cur, banned), "newConnection", banned, FALSE)

\* The registry's signals.  They are direct connections: the registry has
\* already changed its counts when it emits, and the handler runs at once.
\* SessionServer::userLoggedIn
EvUserLoggedIn ==
    /\ Alive
    /\ users > 0
    /\ Commit(printStatusUpdate(Cur), "userLoggedIn", FALSE, FALSE)

\* SessionServer::sessionCreated: a logged in user opens a session.
EvSessionCreated ==
    /\ Alive
    /\ users > 0
    /\ sessions < MaxSessions
    /\ \E id \in SessionIds, now \in Clocks :
          Commit(assignRecording([Cur EXCEPT !.sessions = @ + 1], id, now), "sessionCreated", FALSE, FALSE)

\* SessionServer::sessionEnded
EvSessionEnded ==
    /\ Alive
    /\ sessions > 0
    /\ Commit(tryAutoStop([Cur EXCEPT !.sessions = @ - 1]), "sessionEnded", FALSE, FALSE)

\* SessionServer::userDisconnected
EvUserDisconnected ==
    /\ Alive
    /\ users > 0
    /\ Commit(onUserDisconnected([Cur EXCEPT !.users = @ - 1]), "userDisconnected", FALSE, FALSE)

Next ==
    \/ CallStart
    \/ CallStartFd
    \/ CallSetAutoStop
    \/ CallStop
    \/ ConnArrives
    \/ EvNewConnection
    \/ EvUserLoggedIn
    \/ EvSessionCreated
    \/ EvSessionEnded
    \/ EvUserDisconnected

Spec == Init /\ [][Next]_vars

TypeOK ==
    /\ m_state \in States
    /\ m_server \in {NULLPTR, LISTENING, CLOSED}
    /\ users \in 0..MaxUsers
    /\ sessions \in 0..MaxSessions
    /\ pending \in 0..MaxPending

\* ---- properties ----
StartOps == {"start", "startFd"}
DrainEvents == {"sessionEnded", "userDisconnected"}
Calls(what) == CountIn(fx.log, what)

\* C1: over any sequence of calls and registry events the state only moves
\* NOT_STARTED -> RUNNING -> STOPPING -> STOPPED: a call or event leaves the
\* state alone, takes the next step of this order, or (a stop() that finds
\* nobody connected) goes from RUNNING through STOPPING to STOPPED; no step
\* goes backwards and STOPPED is never left.
C1_StateMovesForward ==
    [][ \/ m_state' = m_state
        \/ <<m_state, m_state'>> \in {<<NOT_STARTED, RUNNING>>, <<RUNNING, STOPPING>>, <<STOPPING, STOPPED>>}
        \/ /\ m_state = RUNNING
           /\ m_state' = STOPPED
           /\ CountIn(fx'.log, "stopAll") = 1 ]_vars

\* The whole order has been walked, the last step taken by a userDisconnected event.
C1_Witness ==
    /\ m_state = STOPPED
    /\ fx.op = "userDisconnected"
    /\ fx.from = STOPPING
    /\ fault = "none"

\* C2: serverStopped is emitted at most once per lifecycle, in the very step
\* in which the state becomes STOPPED and in no other; stop() called while
\* STOPPING or after STOPPED, and userDisconnected events (also those that
\* run inside stopAll), never fail.
C2_StoppedEmittedOnce ==
    /\ emitted <= 1
    /\ emitted - fx.emittedBefore = Calls("serverStopped")
    /\ Calls("serverStopped") = (IF m_state = STOPPED /\ fx.from # STOPPED THEN 1 ELSE 0)
    /\ (emitted = 1) <=> (m_state = STOPPED)
    /\ (fx.op = "userDisconnected" \/ (fx.op = "stop" /\ fx.from \in {STOPPING, STOPPED}))
          => fault = "none"

\* stop() in RUNNING with users connected, all of whom are gone before
\* stopAll returns: the nested stop() emitted, the outer one did not emit again.
C2_Witness ==
    /\ fx.op = "stop"
    /\ fx.from = RUNNING
    /\ fx.usersBefore = MaxUsers
    /\ Calls("notifyStatus") = MaxUsers
    /\ m_state = STOPPED
    /\ emitted = 1

\* C3: tryAutoStop calls stop() only in RUNNING with autoStop set and no
\* session and no user left; with autoStop off only an explicit stop() takes
\* the server out of RUNNING, and no sessionEnded or userDisconnected event
\* takes a server with a session or a user left out of RUNNING.
C3_AutoStopOnlyWhenIdle ==
    /\ \A i \in 1..Len(fx.log) :
          fx.log[i][1] = "autostop" =>
             /\ fx.from = RUNNING
             /\ fx.autoStopBefore
             /\ fx.log[i][2] = 0
             /\ fx.log[i][3] = 0
    /\ (fx.from = RUNNING /\ m_state # RUNNING /\ ~fx.autoStopBefore) => fx.op = "stop"
    /\ (fx.op \in DrainEvents /\ fx.from = RUNNING /\ (users > 0 \/ sessions > 0))
          => m_state = RUNNING

\* autoStop is on and the last user leaves while a session remains: still RUNNING.
C3_Witness ==
    /\ fx.op = "userDisconnected"
    /\ fx.from = RUNNING
    /\ fx.autoStopBefore
    /\ users = 0
    /\ sessions > 0
    /\ m_state = RUNNING

\* C4: whenever a sessionEnded or userDisconnected event leaves both counts
\* at zero while the state is RUNNING and autoStop is set, stop() is
\* triggered and the server leaves RUNNING, whichever count reached zero last.
C4_AutoStopFiresWhenIdle ==
    (fx.op \in DrainEvents /\ fx.from = RUNNING /\ fx.autoStopBefore /\ users = 0 /\ sessions = 0)
       => /\ m_state # RUNNING
          /\ Calls("autostop") = 1
          /\ Calls("stopAll") = 1

\* The users left first, the end of the last session stopped the server.
C4_Witness ==
    /\ fx.op = "sessionEnded"
    /\ fx.from = RUNNING
    /\ fx.usersBefore = 0
    /\ fx.sessionsBefore = 1
    /\ m_state = STOPPED

\* C5: for a connection from a banned address newClient sends the kick
\* "BANNED", does not call addClient and reports no status; for any other
\* connection it calls addClient exactly once.
C5_BannedNeverAdded ==
    fx.op = "newConnection" =>
       IF fx.arg
       THEN /\ Calls("disconnectKick BANNED") = 1
            /\ Calls("addClient") = 0
            /\ Calls("notifyStatus") = 0
            /\ users = fx.usersBefore
       ELSE /\ Calls("disconnectKick BANNED") = 0
            /\ Calls("addClient") = 1
            /\ users = fx.usersBefore + 1

\* A banned peer was kicked while another user was connected.
C5_Witness ==
    /\ fx.op = "newConnection"
    /\ fx.arg
    /\ Calls("disconnectKick BANNED") = 1
    /\ users > 0

\* The listener could be created: no TLS is configured or the certificate is valid.
CreateServerOk == ~m_ssl \/ fx.arg

\* C6: with TLS configured and a certificate that fails validation, start
\* and startFd return failure and the state stays NOT_STARTED.
C6_InvalidCertStaysNotStarted ==
    (fx.op \in StartOps /\ fx.from = NOT_STARTED /\ m_ssl /\ ~fx.arg)
       => /\ fx.ret = "false"
          /\ m_state = NOT_STARTED

\* C7: when listen() fails in start or setSocketDescriptor() fails in
\* startFd, the call returns failure, the listener is deleted, no listener
\* is held and the state is NOT_STARTED, so that the entry assertion of a
\* later start or startFd holds.
C7_BindFailureReverts ==
    (fx.op \in StartOps /\ fx.from = NOT_STARTED /\ CreateServerOk /\ ~fx.env)
       => /\ fx.ret = "false"
          /\ Calls("delete") = 1
          /\ m_server = NULLPTR
          /\ liveServers = 0
          /\ m_state = NOT_STARTED
          /\ fault = "none"

\* startFd could not adopt the descriptor of a TLS listener with a valid certificate.
C7_Witness ==
    /\ fx.op = "startFd"
    /\ m_ssl
    /\ fx.arg
    /\ ~fx.env
    /\ fx.ret = "false"
    /\ m_state = NOT_STARTED
    /\ m_server = NULLPTR

\* C8: start and startFd called in a state other than NOT_STARTED fail the
\* entry assertion: no listener is created, m_server and the state are left
\* as they were; there is never more than one listener object; and a
\* successful call from NOT_STARTED moves the state to RUNNING.
C8_StartOnlyFromNotStarted ==
    /\ (fx.op \in StartOps /\ fx.from # NOT_STARTED)
          => /\ fault = "assert"
             /\ fx.log = <<>>
             /\ m_state = fx.from
             /\ m_server = fx.serverBefore
    /\ (fx.op \in StartOps /\ fx.from = NOT_STARTED)
          => /\ fault = "none"
             /\ fx.ret = "true" => (m_state = RUNNING /\ m_server = LISTENING)
    /\ liveServers <= 1

\* start was called on a stopped server.
C8_Witness ==
    /\ fx.op = "start"
    /\ fx.from = STOPPED
    /\ fault = "assert"
    /\ m_state = STOPPED

\* C9: the step that takes a listening server out of RUNNING closes the
\* listener and drops the connections waiting in it; in STOPPING and STOPPED
\* the listener does not listen, nothing waits in it, and no newConnection
\* is handled: newClient runs, and addClient is called, in RUNNING only.
C9_NoConnectionsAfterStop ==
    /\ m_state \in {STOPPING, STOPPED} => (m_server # LISTENING /\ pending = 0)
    /\ (fx.from = RUNNING /\ m_state # RUNNING /\ fx.serverBefore = LISTENING)
          => Calls("close") = 1
    /\ fx.op = "newConnection" => fx.from = RUNNING
    /\ Calls("addClient") > 0 => fx.from = RUNNING

\* stop() while connections waited in the listener and a user was connected.
C9_Witness ==
    /\ fx.op = "stop"
    /\ fx.from = RUNNING
    /\ fx.pendingBefore > 0
    /\ m_state = STOPPING
    /\ m_server = CLOSED
    /\ pending = 0

\* C10: the state becomes STOPPED only when totalUsers() is 0: serverStopped
\* is emitted with no user connected, a server in STOPPING with users left
\* after a stop() call or a userDisconnected event is still STOPPING, and
\* in every state STOPPED implies totalUsers() = 0.
C10_StoppedOnlyWithoutUsers ==
    /\ m_state = STOPPED => users = 0
    /\ (fx.from = STOPPING /\ users > 0) => m_state = STOPPING
    /\ \A i \in 1..Len(fx.log) : fx.log[i][1] = "serverStopped" => fx.log[i][2] = 0

\* stop() called again during the drain, with a user still connected.
C10_Witness ==
    /\ fx.op = "stop"
    /\ fx.from = STOPPING
    /\ users > 0
    /\ m_state = STOPPING
    /\ emitted = 0

\* Every disconnection is delivered: a userDisconnected event that can
\* happen (a user is connected, the process is alive) eventually happens.
InitDrain ==
    /\ InitServer
    /\ recordingPath = <<>>
    /\ fsDirs = PlainDirs
    /\ fsFiles = {}

FairSpec == InitDrain /\ [][Next]_vars /\ WF_vars(EvUserDisconnected)

\* C11: once the server is STOPPING, if the connected users go on
\* disconnecting and every disconnection is delivered, the state becomes
\* STOPPED and serverStopped has been emitted (unless the process died on a
\* failed assertion meanwhile); nothing else ends the drain: a step that
\* leaves the user count of a STOPPING server alone leaves it STOPPING.
C11_DrainCompletes ==
    /\ (m_state = STOPPING /\ Alive) ~> ((m_state = STOPPED /\ emitted = 1) \/ ~Alive)
    /\ [][(m_state = STOPPING /\ users' = users) => m_state' = STOPPING]_vars

\* The drain of a full server ended with the disconnection of its last user.
C11_Witness ==
    /\ m_state = STOPPED
    /\ fx.op = "userDisconnected"
    /\ fx.from = STOPPING
    /\ fx.usersBefore = 1
    /\ Calls("serverStopped") = 1
    /\ emitted = 1

\* ---- the recording path as a function of its inputs ----
PatternChars == {"~", "/", "%", "d", "t", "i"}
BoundedPatterns == UNION {[1..n -> PatternChars] : n \in 0..MaxLen}

\* Scenario B of the specification: "~/rec/%d %t session %i.dprec", session 7
ScenarioPattern == <<"~", "/", "r", "e", "c", "/">> \o DefaultPattern
ScenarioIds == {7}
ScenarioClock == CHOOSE c \in Clocks : c.year = 2024
ScenarioFile ==
    HOME \o <<"/", "r", "e", "c", "/", "2", "0", "2", "4", "-", "0", "3", "-", "0", "5", " ",
              "1", "4", ".", "0", "7", ".", "0", "2", " ", "s", "e", "s", "s", "i", "o", "n", " ", "7",
              ".", "d", "p", "r", "e", "c">>

\* The files that exist: "rec" in the working directory, and "/i".
SomeFiles == {CurrentDir \o <<"/">> \o FixedPattern, <<"/", "i">>}

InitRec ==
    /\ InitServer
    /\ recordingPath \in BoundedPatterns \cup {ScenarioPattern, FixedPattern}
    /\ fsDirs = SomeDirs
    /\ fsFiles = SomeFiles

\* sessionCreated, for any session id and clock
SessionCreated ==
    /\ \E id \in SessionIds \cup ScenarioIds, now \in Clocks :
          rec' = assignRecording(Cur, id, now).rec
    /\ UNCHANGED <<m_state, m_server, m_autoStop, m_ssl, users, sessions, pending, liveServers,
                   emitted, fault, fx, recordingPath, fsDirs, fsFiles>>

RecNext == SessionCreated

RecSpec == InitRec /\ [][RecNext]_vars

\* What the specification asks of the path, written as one pass over the pattern.
RECURSIVE Occurrences(_, _)
Occurrences(f, c) == IF f = <<>> THEN 0 ELSE (IF Head(f) = c THEN 1 ELSE 0) + Occurrences(Tail(f), c)

HasPlaceholder(f) ==
    \E k \in 1..(Len(f) - 1) : f[k] = "%" /\ f[k + 1] \in {"d", "t", "i"}

RECURSIVE Substituted(_, _, _)
Substituted(f, id, now) ==
    IF f = <<>> THEN <<>>
    ELSE IF Len(f) >= 2 /\ f[1] = "%" /\ f[2] = "d" THEN DateString(now) \o Substituted(SubSeq(f, 3, Len(f)), id, now)
    ELSE IF Len(f) >= 2 /\ f[1] = "%" /\ f[2] = "t" THEN TimeString(now) \o Substituted(SubSeq(f, 3, Len(f)), id, now)
    ELSE IF Len(f) >= 2 /\ f[1] = "%" /\ f[2] = "i" THEN Decimal(id) \o Substituted(SubSeq(f, 3, Len(f)), id, now)
    ELSE <<Head(f)>> \o Substituted(Tail(f), id, now)

HomeExpanded(p) ==
    IF Len(p) >= 2 /\ p[1] = "~" /\ p[2] = "/" THEN HOME \o Tail(p) ELSE p

NamesDirectory(p) == absoluteFilePath(HomeExpanded(p)) \in fsDirs

C13_StopLeavesStopping ==
    /\ (fx.op = "stop" /\ fx.from = RUNNING /\ fault = "none") => m_state = STOPPING
    /\ (m_state = STOPPED /\ fx.from # STOPPED) => fx.op = "userDisconnected"

\* C13 as amended: a stop() call made in RUNNING returns in STOPPING exactly
\* when a user is still connected after stopAll(), and in STOPPED when
\* nobody is; from STOPPING, STOPPED is entered only by a userDisconnected
\* event.
C13_StopLeavesStoppingIfUsers ==
    /\ (fx.op = "stop" /\ fx.from = RUNNING /\ fault = "none")
          => /\ users > 0 => m_state = STOPPING
             /\ users = 0 => m_state = STOPPED /\ Calls("serverStopped") = 1
    /\ (m_state = STOPPED /\ fx.from = STOPPING) => fx.op = "userDisconnected"

\* stop() of a full server: one user left inside stopAll(), one is still connected.
C13_Witness ==
    /\ fx.op = "stop"
    /\ fx.from = RUNNING
    /\ fx.usersBefore = 2
    /\ users = 1
    /\ m_state = STOPPING
    /\ Calls("notifyStatus") = 1

\* The users and sessions reported by the last notifyStatus of the step.
LastStatus ==
    LET idx == {i \in 1..Len(fx.log) : fx.log[i][1] = "notifyStatus"} IN
    IF idx = {} THEN <<>>
    ELSE LET last == CHOOSE i \in idx : \A j \in idx : j <= i IN <<fx.log[last][2], fx.log[last][3]>>

\* C14: a status report is issued on every accepted connection, every
\* userLoggedIn, every userDisconnected and every auto-stop evaluation
\* (sessionEnded included); every step that changes the user count or the
\* session count ends with the current counts reported; on
\* userDisconnected the report comes first.
C14_StatusAfterEveryChange ==
    /\ (fx.op = "newConnection" /\ ~fx.arg) => Calls("notifyStatus") >= 1
    /\ fx.op \in {"userLoggedIn", "userDisconnected", "sessionEnded"} => Calls("notifyStatus") >= 1
    /\ (users # fx.usersBefore \/ sessions # fx.sessionsBefore) => LastStatus = <<users, sessions>>
    /\ fx.op = "userDisconnected" => fx.log[1][1] = "notifyStatus"

\* C15: in RUNNING a listener object exists and listens, so that stop()
\* never calls close() through a null pointer; and a listener listens in
\* RUNNING only.
C15_RunningHasListener ==
    /\ m_state = RUNNING => m_server = LISTENING
    /\ m_server = LISTENING => m_state = RUNNING
    /\ fault # "nullderef"

\* C16: stopAll() and close() are called in the step that takes a listening
\* server out of RUNNING, once each, and in no other step; RUNNING is never
\* entered again, so this is once per lifecycle.  stop() re-run in STOPPING
\* calls neither, and sessionEnded in STOPPING or STOPPED does nothing.
C16_KickOutOnce ==
    /\ [](/\ Calls("stopAll") <= 1
          /\ Calls("close") <= 1
          /\ (Calls("stopAll") = 1 \/ Calls("close") = 1) => (fx.from = RUNNING /\ m_state # RUNNING)
          /\ (fx.from = RUNNING /\ m_state # RUNNING /\ fx.serverBefore = LISTENING)
                => (Calls("stopAll") = 1 /\ Calls("close") = 1)
          /\ (fx.op = "sessionEnded" /\ fx.from \in {STOPPING, STOPPED})
                => (m_state = fx.from /\ fx.log = <<>> /\ emitted = fx.emittedBefore))
    /\ [][(m_state \in {STOPPING, STOPPED}) => (m_state' \in {STOPPING, STOPPED})]_vars

\* A session ended during the drain.
C16_Witness ==
    /\ fx.op = "sessionEnded"
    /\ fx.from = STOPPING
    /\ m_state = STOPPING
    /\ users > 0
    /\ fx.log = <<>>

\* C17: after every completed call or event, a server in STOPPING has a
\* user connected.
C17_NoIdleStopping ==
    (m_state = STOPPING /\ fault = "none") => users > 0

\* stop() of a listening server with nobody connected ended in STOPPED.
C17_Witness ==
    /\ fx.op = "stop"
    /\ fx.from = RUNNING
    /\ fx.serverBefore = LISTENING
    /\ fx.usersBefore = 0
    /\ m_state = STOPPED

\* C18: the event in which tryAutoStop fires closes the listener, calls
\* stopAll() once, emits serverStopped and ends in STOPPED, in this order
\* and without any further event.
C18_AutoStopCompletesAtOnce ==
    Calls("autostop") >= 1 =>
       /\ fx.op \in DrainEvents
       /\ fx.from = RUNNING
       /\ m_state = STOPPED
       /\ Calls("autostop") = 1
       /\ \E i \in 1..Len(fx.log) :
             /\ i + 3 = Len(fx.log)
             /\ fx.log[i][1] = "autostop"
             /\ fx.log[i + 1][1] = "close"
             /\ fx.log[i + 2][1] = "stopAll"
             /\ fx.log[i + 3][1] = "serverStopped"

\* The last user left an auto-stopping server that had no session.
C18_Witness ==
    /\ fx.op = "userDisconnected"
    /\ Calls("autostop") = 1
    /\ fx.usersBefore = 1
    /\ m_state = STOPPED
    /\ emitted = 1

\* C19: stop() in NOT_STARTED or STOPPED changes nothing and calls nothing;
\* setAutoStop sets the flag and nothing else, also on an idle RUNNING server.
C19_NoOps ==
    /\ (fx.op = "stop" /\ fx.from \in {NOT_STARTED, STOPPED})
          => /\ m_state = fx.from
             /\ m_server = fx.serverBefore
             /\ m_autoStop = fx.autoStopBefore
             /\ emitted = fx.emittedBefore
             /\ fx.log = <<>>
             /\ fault = "none"
    /\ fx.op = "setAutoStop"
          => /\ m_autoStop = fx.arg
             /\ m_state = fx.from
             /\ m_server = fx.serverBefore
             /\ users = fx.usersBefore
             /\ sessions = fx.sessionsBefore
             /\ emitted = fx.emittedBefore
             /\ fx.log = <<>>

\* autoStop was switched on while the server was running with nobody on it.
C19_Witness ==
    /\ fx.op = "setAutoStop"
    /\ fx.arg
    /\ ~fx.autoStopBefore
    /\ m_state = RUNNING
    /\ m_server = LISTENING
    /\ users = 0
    /\ sessions = 0

\* C20: the recording file given to a session never names a file that exists.
C20_RecordingFileIsNew ==
    rec.assigned => rec.file \notin fsFiles

====
